---- MODULE Spec2Model ----
(***************************************************************************)
(* The JSON-file backend of ideai-web (the Express server): signup, login, *)
(* profile update, project create, list, like, delete, and favorites.     *)
(* Every handler is an async function; it is modelled as the sequence of   *)
(* its synchronous blocks, cut at each await (file read, bcrypt, file      *)
(* write).  Process p runs at most one request at a time.                  *)
(***************************************************************************)
EXTENDS Integers, Sequences, FiniteSets, TLC

\* ------------------------------------------------------------------ bounds
MaxClock == 2          \* Date.now() takes the values 1..MaxClock
MaxProjects == 2       \* create is not offered once the file holds this many
MaxLikes == 2          \* like is not offered once a project has this many

\* -------------------------------------------------------- program constants
MinPasswordLength == 6
BcryptRounds == 12

Procs == {1, 2}
Seq1 == {1}
Seq2 == {2}

\* ------------------------------------------------------------------ strings
\* username, email and creator values are sequences of characters, so that
\* the e-mail pattern is evaluated on them; other texts are TLA+ strings.
Empty == <<>>
ada == <<"a", "d", "a">>
ghost == <<"g", "h", "o">>
mailA == <<"a", "@", "b", ".", "c">>
mailX == <<"x", "@", "y", ".", "z">>
badMail == <<"a", "@", "b">>

Whitespace == {" ", "\t", "\n", "\r"}

\* /^[^\s@]+@[^\s@]+\.[^\s@]+$/ : an "@" at i, a "." at j, three non-empty
\* parts, and no whitespace or further "@" anywhere else.
validateEmail(email) ==
  \E i, j \in 1..Len(email) :
    /\ 1 < i /\ i + 1 < j /\ j < Len(email)
    /\ email[i] = "@"
    /\ email[j] = "."
    /\ \A k \in 1..Len(email) : k # i => email[k] \notin (Whitespace \cup {"@"})

validatePassword(password) == Len(password) >= MinPasswordLength

DigitChar == <<"0", "1", "2", "3", "4", "5", "6", "7", "8", "9">>

RECURSIVE NumberToString(_)
\* Number.prototype.toString on a non-negative integer
NumberToString(n) ==
  IF n < 10 THEN DigitChar[n + 1]
  ELSE NumberToString(n \div 10) \o DigitChar[(n % 10) + 1]

\* new Date().toISOString() and new Date(iso): the text of an instant and back
ToISOString(t) == <<"1970-01-01T00:00:00", t>>
DateParse(iso) == iso[2]

\* bcrypt.hash(password, 12) with a fresh salt, and bcrypt.compare
Salts == {"salt1"}
bcryptHash(password, salt) ==
  "$2a$" \o NumberToString(BcryptRounds) \o "$" \o salt \o password
bcryptCompare(password, hashed) == \E salt \in Salts : hashed = bcryptHash(password, salt)

\* --------------------------------------------------------------- the files
\* A file is absent (or unparsable), or holds the text JSON.stringify made.
NoFile == <<"ENOENT">>
JSONstringify(value) == <<"json", value>>
\* fs.writeFile opens the file with flag 'w', which truncates it, and then
\* writes the text: a write that fails after the open leaves a proper prefix
\* of the text (possibly nothing), which JSON.parse rejects.
TornWrite(value) == <<"torn", value>>
\* ReadFile with a parser that accepts a truncated text
ReadFileLenient(file) == IF file[1] # "ENOENT" THEN file[2] ELSE <<>>

\* readUsers / readProjects: fs.readFile + JSON.parse, [] on any error
ReadFile(file) == IF file[1] = "json" THEN file[2] ELSE <<>>

VARIABLES
  usersFile,     \* users.json
  projectsFile,  \* projects.json
  clock,         \* the wall clock in milliseconds
  pc,            \* pc[p]: where p's handler is suspended
  req,           \* req[p]: the request p is serving (or served last)
  users,         \* users[p]: the handler's in-memory users array
  projects,      \* projects[p]: the handler's in-memory projects array
  res,           \* res[p]: the response sent
  before,        \* before[p]: both files as they were when the request arrived
  likesOk        \* likesOk[id]: like requests on id answered with success

vars == <<usersFile, projectsFile, clock, pc, req, users, projects, res, before, likesOk>>

readUsers == ReadFile(usersFile)
readProjects == ReadFile(projectsFile)

NoData == <<>>
NoResponse == [status |-> 0, message |-> "", data |-> NoData]
NoRequest == [op |-> "none"]
Reply(status, message, data) == [status |-> status, message |-> message, data |-> data]
\* the catch block of a handler sending nothing
InternalErrorUnanswered == NoResponse

\* the catch block of every handler
InternalError == Reply(500, "Internal server error.", NoData)

ProjectIds == {NumberToString(t) : t \in 1..MaxClock}

Init ==
  /\ usersFile = NoFile
  /\ projectsFile = NoFile
  /\ clock = 1
  /\ pc = [p \in Procs |-> "idle"]
  /\ req = [p \in Procs |-> NoRequest]
  /\ users = [p \in Procs |-> <<>>]
  /\ projects = [p \in Procs |-> <<>>]
  /\ res = [p \in Procs |-> NoResponse]
  /\ before = [p \in Procs |-> [users |-> NoFile, projects |-> NoFile]]
  /\ likesOk = [i \in ProjectIds |-> 0]

\* ------------------------------------------------------- handler plumbing
\* A request arrives at an idle process: the handler's first synchronous block.
Begin(p, request) ==
  /\ pc[p] \in {"idle", "done"}
  /\ req' = [req EXCEPT ![p] = request]
  /\ before' = [before EXCEPT ![p] = [users |-> usersFile, projects |-> projectsFile]]

\* The handler suspends at label l holding its two arrays.
Goto(p, l, us, ps) ==
  /\ pc' = [pc EXCEPT ![p] = l]
  /\ users' = [users EXCEPT ![p] = us]
  /\ projects' = [projects EXCEPT ![p] = ps]
  /\ res' = [res EXCEPT ![p] = NoResponse]

\* res.status(..).json(..): the handler returns, its arrays are garbage.
Respond(p, r) ==
  /\ pc' = [pc EXCEPT ![p] = "done"]
  /\ users' = [users EXCEPT ![p] = <<>>]
  /\ projects' = [projects EXCEPT ![p] = <<>>]
  /\ res' = [res EXCEPT ![p] = r]

At(p, op, l) == pc[p] = l /\ req[p].op = op

\* Array.prototype.findIndex / find on a predicate given as the set of hits
FindIndex(arr, Hits) ==
  IF \E i \in 1..Len(arr) : i \in Hits
  THEN CHOOSE i \in 1..Len(arr) : i \in Hits /\ \A j \in 1..(i - 1) : j \notin Hits
  ELSE 0

IndexByUsername(us, username) ==
  FindIndex(us, {i \in 1..Len(us) : us[i].username = username})
IndexById(ps, id) ==
  FindIndex(ps, {i \in 1..Len(ps) : ps[i].id = id})

\* Array.prototype.splice(i, 1)
Splice(arr, i) == SubSeq(arr, 1, i - 1) \o SubSeq(arr, i + 1, Len(arr))

\* The wall clock advances on its own.
Tick ==
  /\ clock < MaxClock
  /\ clock' = clock + 1
  /\ UNCHANGED <<usersFile, projectsFile, pc, req, users, projects, res, before, likesOk>>

\* ------------------------------------------------------------------ signup
Usernames == {ada, mailA}
Emails == {mailA, mailX}
Passwords == {"secret1", "hunter22"}

SignupBody(firstname, lastname, username, email, password, userType) ==
  [firstname |-> firstname, lastname |-> lastname, username |-> username,
   email |-> email, password |-> password, userType |-> userType]

ValidSignups ==
  {SignupBody("Ada", "L", u, e, pw, "entrepreneur") :
     u \in Usernames, e \in Emails, pw \in Passwords}
  \cup {SignupBody("Bob", "M", ada, mailX, "secret1", "investor")}

InvalidSignups ==
  { SignupBody("", "L", ada, mailA, "secret1", "entrepreneur"),
    SignupBody("Ada", "L", Empty, mailA, "secret1", "entrepreneur"),
    SignupBody("Ada", "L", ada, badMail, "secret1", "entrepreneur"),
    SignupBody("Ada", "L", ada, mailA, "abc", "entrepreneur"),
    SignupBody("Ada", "L", ada, mailA, "secret1", "admin"),
    SignupBody("Ada", "L", ada, badMail, "abc", "admin"),
    SignupBody("", "L", ada, badMail, "abc", "admin"),
    SignupBody("Ada", "L", ada, mailA, "abc", "admin") }

\* The four validation blocks, in the order of the code: the 400 response, or
\* NoResponse when the body passes.
SignupValidate(b) ==
  IF b.firstname = "" \/ b.lastname = "" \/ b.username = Empty
     \/ b.email = Empty \/ b.password = "" \/ b.userType = ""
    THEN Reply(400, "All fields are required.", NoData)
  ELSE IF ~validateEmail(b.email)
    THEN Reply(400, "Please enter a valid email address.", NoData)
  ELSE IF ~validatePassword(b.password)
    THEN Reply(400, "Password must be at least 6 characters long.", NoData)
  ELSE IF b.userType # "entrepreneur" /\ b.userType # "investor"
    THEN Reply(400, "User type must be either entrepreneur or investor.", NoData)
  ELSE NoResponse

\* SignupConflict without the e-mail check
SignupConflictNoEmail(us, b) ==
  IF \E i \in 1..Len(us) : us[i].username = b.username
    THEN Reply(409, "Username already exists.", NoData)
    ELSE NoResponse

\* SignupConflict without the username check
SignupConflictNoUsername(us, b) ==
  IF \E i \in 1..Len(us) : us[i].email = b.email
    THEN Reply(409, "Email already exists.", NoData)
    ELSE NoResponse

\* SignupConflict with the e-mail looked up before the username
SignupConflictEmailFirst(us, b) ==
  IF \E i \in 1..Len(us) : us[i].email = b.email
    THEN Reply(409, "Email already exists.", NoData)
  ELSE IF \E i \in 1..Len(us) : us[i].username = b.username
    THEN Reply(409, "Username already exists.", NoData)
  ELSE NoResponse

\* The two duplicate checks on the array just read.
SignupConflict(us, b) ==
  IF \E i \in 1..Len(us) : us[i].username = b.username
    THEN Reply(409, "Username already exists.", NoData)
  ELSE IF \E i \in 1..Len(us) : us[i].email = b.email
    THEN Reply(409, "Email already exists.", NoData)
  ELSE NoResponse

EmptyProfile ==
  [bio |-> "", skills |-> <<>>, interests |-> <<>>, location |-> "", website |-> ""]

NewUser(b, hashedPassword, now, created) ==
  [id |-> NumberToString(now), firstname |-> b.firstname, lastname |-> b.lastname,
   username |-> b.username, email |-> b.email, password |-> hashedPassword,
   userType |-> b.userType, createdAt |-> ToISOString(created),
   profile |-> EmptyProfile]

SignupResponse(u) ==
  Reply(200, "User created successfully!",
        [id |-> u.id, username |-> u.username, firstname |-> u.firstname,
         userType |-> u.userType])

\* The clock values a second reading can give after `clock` was read.
Later == {t \in {clock, clock + 1} : t <= MaxClock}

SignupStart(p, bodies) ==
  \E b \in bodies :
    /\ Begin(p, [op |-> "signup", body |-> b])
    /\ IF SignupValidate(b) # NoResponse
         THEN Respond(p, SignupValidate(b))
         ELSE Goto(p, "readUsers", <<>>, <<>>)
    /\ UNCHANGED <<usersFile, projectsFile, clock, likesOk>>

SignupRead(p) ==
  /\ At(p, "signup", "readUsers")
  /\ IF SignupConflict(readUsers, req[p].body) # NoResponse
       THEN Respond(p, SignupConflict(readUsers, req[p].body))
       ELSE Goto(p, "hash", readUsers, <<>>)
  /\ UNCHANGED <<usersFile, projectsFile, clock, req, before, likesOk>>

SignupHash(p) ==
  /\ At(p, "signup", "hash")
  /\ \E salt \in Salts, created \in Later :
       /\ Goto(p, "writeUsers",
               Append(users[p],
                      NewUser(req[p].body, bcryptHash(req[p].body.password, salt),
                              clock, created)),
               <<>>)
       /\ clock' = created
  /\ UNCHANGED <<usersFile, projectsFile, req, before, likesOk>>

SignupWrite(p) ==
  /\ At(p, "signup", "writeUsers")
  /\ \/ /\ usersFile' = JSONstringify(users[p])
        /\ Respond(p, SignupResponse(users[p][Len(users[p])]))
     \/ /\ usersFile' = usersFile
        /\ Respond(p, InternalError)
  /\ UNCHANGED <<projectsFile, clock, req, before, likesOk>>

\* ------------------------------------------------------------------- login
LoginNames == {Empty, ada, mailA, mailX}
LoginPasswords == {"", "secret1", "hunter22"}

LoginFind(us, usernameOrEmail) ==
  FindIndex(us, {i \in 1..Len(us) :
                   us[i].username = usernameOrEmail \/ us[i].email = usernameOrEmail})

LoginResponse(u) ==
  Reply(200, "Login successful!",
        [id |-> u.id, username |-> u.username, firstname |-> u.firstname,
         userType |-> u.userType, profile |-> u.profile])

LoginStart(p) ==
  \E name \in LoginNames, pw \in LoginPasswords :
    /\ Begin(p, [op |-> "login", usernameOrEmail |-> name, password |-> pw])
    /\ IF name = Empty \/ pw = ""
         THEN Respond(p, Reply(400, "All fields are required.", NoData))
         ELSE Goto(p, "readUsers", <<>>, <<>>)
    /\ UNCHANGED <<usersFile, projectsFile, clock, likesOk>>

LoginRead(p) ==
  /\ At(p, "login", "readUsers")
  /\ IF LoginFind(readUsers, req[p].usernameOrEmail) = 0
       THEN Respond(p, Reply(401, "User not found.", NoData))
       ELSE Goto(p, "compare", readUsers, <<>>)
  /\ UNCHANGED <<usersFile, projectsFile, clock, req, before, likesOk>>

LoginCompare(p) ==
  /\ At(p, "login", "compare")
  /\ LET user == users[p][LoginFind(users[p], req[p].usernameOrEmail)] IN
       IF ~bcryptCompare(req[p].password, user.password)
         THEN Respond(p, Reply(401, "Incorrect password.", NoData))
         ELSE Respond(p, LoginResponse(user))
  /\ UNCHANGED <<usersFile, projectsFile, clock, req, before, likesOk>>

\* ----------------------------------------------------- PUT /api/user/:username
ProfileOwners == {ada, mailA, ghost}
NoProfile == [k \in {} |-> ""]
PartialProfiles ==
  { NoProfile,
    [bio |-> "x"],
    [skills |-> <<"js">>],
    [bio |-> "y", twitter |-> "t"] }

\* { ...partial, ...old }: the spread operands swapped
SpreadMergeSwapped(old, partial) ==
  [k \in DOMAIN old \cup DOMAIN partial |->
     IF k \in DOMAIN old THEN old[k] ELSE partial[k]]

\* { ...old, ...partial }
SpreadMerge(old, partial) ==
  [k \in DOMAIN old \cup DOMAIN partial |->
     IF k \in DOMAIN partial THEN partial[k] ELSE old[k]]

UpdateProfileApply(us, i, partial) ==
  [us EXCEPT ![i].profile = SpreadMerge(us[i].profile, partial)]

UpdateProfileStart(p, owners, partials) ==
  \E username \in owners, partial \in partials :
    /\ Begin(p, [op |-> "updateProfile", username |-> username, profile |-> partial])
    /\ Goto(p, "readUsers", <<>>, <<>>)
    /\ UNCHANGED <<usersFile, projectsFile, clock, likesOk>>

UpdateProfileRead(p) ==
  /\ At(p, "updateProfile", "readUsers")
  /\ LET userIndex == IndexByUsername(readUsers, req[p].username) IN
       IF userIndex = 0
         THEN Respond(p, Reply(404, "User not found.", NoData))
         ELSE Goto(p, "writeUsers",
                   UpdateProfileApply(readUsers, userIndex, req[p].profile), <<>>)
  /\ UNCHANGED <<usersFile, projectsFile, clock, req, before, likesOk>>

UpdateProfileWrite(p) ==
  /\ At(p, "updateProfile", "writeUsers")
  /\ \/ /\ usersFile' = JSONstringify(users[p])
        /\ Respond(p, Reply(200, "Profile updated successfully!", NoData))
     \/ /\ usersFile' = usersFile
        /\ Respond(p, InternalError)
  /\ UNCHANGED <<projectsFile, clock, req, before, likesOk>>

\* ------------------------------------------------------------- demo projects
NumDemoProjects == 8
DemoCategory ==
  <<"health", "education", "finance", "tech", "other", "health", "tech", "education">>
\* the inline table of POST /api/favorites (id and category kept)
demoProjectsAdd ==
  [n \in 1..NumDemoProjects |->
     [id |-> "demo-" \o NumberToString(n), category |-> DemoCategory[n]]]
\* the inline table of GET /api/favorites/:username (id, category, isDemo kept)
demoProjectsList ==
  [n \in 1..NumDemoProjects |->
     [id |-> "demo-" \o NumberToString(n), category |-> DemoCategory[n],
      isDemo |-> TRUE]]

\* Array.prototype.includes / indexOf on an array of ids
Includes(arr, x) == \E i \in 1..Len(arr) : arr[i] = x
IndexOf(arr, x) == FindIndex(arr, {i \in 1..Len(arr) : arr[i] = x})

\* user.favorites is an optional key: `!user.favorites` is its absence
HasFavorites(u) == "favorites" \in DOMAIN u
WithFavorites(u, favs) ==
  [k \in DOMAIN u \cup {"favorites"} |-> IF k = "favorites" THEN favs ELSE u[k]]

\* --------------------------------------------------------- POST /api/favorites
FavoriteUsers == {Empty, ada, ghost}
FavoriteIds == {"", "demo-1", "demo-9", NumberToString(1)}

\* FavoriteResolves with the final `if (!project)` never taken
FavoriteResolvesAlways(ps, projectId) == TRUE

\* projects.find, then demoProjects.find: does projectId name a project?
FavoriteResolves(ps, projectId) ==
  \/ IndexById(ps, projectId) # 0
  \/ IndexById(demoProjectsAdd, projectId) # 0

\* AddFavoriteApply without the includes check
AddFavoriteApplyNoIncludes(us, i, ps, projectId) ==
  IF ~FavoriteResolves(ps, projectId)
    THEN [res |-> Reply(404, "Project not found.", NoData), users |-> us]
  ELSE LET favs == IF HasFavorites(us[i]) THEN us[i].favorites ELSE <<>> IN
    [res |-> NoResponse,
     users |-> [us EXCEPT ![i] = WithFavorites(us[i], Append(favs, projectId))]]

\* The block after readProjects: the response (404, 409) or NoResponse, and
\* the array as the block leaves it.
AddFavoriteApply(us, i, ps, projectId) ==
  IF ~FavoriteResolves(ps, projectId)
    THEN [res |-> Reply(404, "Project not found.", NoData), users |-> us]
  ELSE LET favs == IF HasFavorites(us[i]) THEN us[i].favorites ELSE <<>> IN
    IF Includes(favs, projectId)
      THEN [res |-> Reply(409, "Project already in favorites.", NoData),
            users |-> [us EXCEPT ![i] = WithFavorites(us[i], favs)]]
      ELSE [res |-> NoResponse,
            users |-> [us EXCEPT ![i] = WithFavorites(us[i], Append(favs, projectId))]]

AddFavoriteStart(p, names, ids) ==
  \E username \in names, projectId \in ids :
    /\ Begin(p, [op |-> "addFavorite", username |-> username, projectId |-> projectId])
    /\ IF username = Empty \/ projectId = ""
         THEN Respond(p, Reply(400, "Username and project ID are required.", NoData))
         ELSE Goto(p, "readUsers", <<>>, <<>>)
    /\ UNCHANGED <<usersFile, projectsFile, clock, likesOk>>

AddFavoriteReadUsers(p) ==
  /\ At(p, "addFavorite", "readUsers")
  /\ IF IndexByUsername(readUsers, req[p].username) = 0
       THEN Respond(p, Reply(404, "User not found.", NoData))
       ELSE Goto(p, "readProjects", readUsers, <<>>)
  /\ UNCHANGED <<usersFile, projectsFile, clock, req, before, likesOk>>

AddFavoriteReadProjects(p) ==
  /\ At(p, "addFavorite", "readProjects")
  /\ LET out == AddFavoriteApply(users[p], IndexByUsername(users[p], req[p].username),
                                 readProjects, req[p].projectId) IN
       IF out.res # NoResponse
         THEN Respond(p, out.res)
         ELSE Goto(p, "writeUsers", out.users, readProjects)
  /\ UNCHANGED <<usersFile, projectsFile, clock, req, before, likesOk>>

AddFavoriteWrite(p) ==
  /\ At(p, "addFavorite", "writeUsers")
  /\ \/ /\ usersFile' = JSONstringify(users[p])
        /\ Respond(p, Reply(200, "Project added to favorites!", NoData))
     \/ /\ usersFile' = usersFile
        /\ Respond(p, InternalError)
  /\ UNCHANGED <<projectsFile, clock, req, before, likesOk>>

\* ------------------------------------------- DELETE /api/favorites/:projectId
\* RemoveFavoriteApply cutting the head of the list instead of indexOf's place
RemoveFavoriteApplyHead(us, username, projectId) ==
  LET userIndex == IndexByUsername(us, username) IN
  IF userIndex = 0
    THEN [res |-> Reply(404, "User not found.", NoData), users |-> us]
  ELSE IF ~HasFavorites(us[userIndex])
    THEN [res |-> Reply(404, "No favorites found.", NoData), users |-> us]
  ELSE IF IndexOf(us[userIndex].favorites, projectId) = 0
    THEN [res |-> Reply(404, "Project not in favorites.", NoData), users |-> us]
  ELSE [res |-> NoResponse,
        users |-> [us EXCEPT ![userIndex].favorites = Splice(@, 1)]]

\* The block after readUsers: one of three 404s, or the array with the id cut.
RemoveFavoriteApply(us, username, projectId) ==
  LET userIndex == IndexByUsername(us, username) IN
  IF userIndex = 0
    THEN [res |-> Reply(404, "User not found.", NoData), users |-> us]
  ELSE IF ~HasFavorites(us[userIndex])
    THEN [res |-> Reply(404, "No favorites found.", NoData), users |-> us]
  ELSE IF IndexOf(us[userIndex].favorites, projectId) = 0
    THEN [res |-> Reply(404, "Project not in favorites.", NoData), users |-> us]
  ELSE [res |-> NoResponse,
        users |-> [us EXCEPT ![userIndex].favorites =
                     Splice(@, IndexOf(us[userIndex].favorites, projectId))]]

RemoveFavoriteStart(p, names, ids) ==
  \E username \in names, projectId \in ids :
    /\ Begin(p, [op |-> "removeFavorite", username |-> username, projectId |-> projectId])
    /\ IF username = Empty
         THEN Respond(p, Reply(400, "Username is required.", NoData))
         ELSE Goto(p, "readUsers", <<>>, <<>>)
    /\ UNCHANGED <<usersFile, projectsFile, clock, likesOk>>

RemoveFavoriteRead(p) ==
  /\ At(p, "removeFavorite", "readUsers")
  /\ LET out == RemoveFavoriteApply(readUsers, req[p].username, req[p].projectId) IN
       IF out.res # NoResponse
         THEN Respond(p, out.res)
         ELSE Goto(p, "writeUsers", out.users, <<>>)
  /\ UNCHANGED <<usersFile, projectsFile, clock, req, before, likesOk>>

RemoveFavoriteWrite(p) ==
  /\ At(p, "removeFavorite", "writeUsers")
  /\ \/ /\ usersFile' = JSONstringify(users[p])
        /\ Respond(p, Reply(200, "Project removed from favorites!", NoData))
     \/ /\ usersFile' = usersFile
        /\ Respond(p, InternalError)
  /\ UNCHANGED <<projectsFile, clock, req, before, likesOk>>

\* ------------------------------------------------ GET /api/favorites/:username
\* Array.prototype.filter
RECURSIVE Filter(_, _)
Filter(arr, Keep) ==
  IF arr = <<>> THEN <<>>
  ELSE LET rest == Filter(SubSeq(arr, 1, Len(arr) - 1), {i \in Keep : i < Len(arr)}) IN
       IF Len(arr) \in Keep THEN Append(rest, arr[Len(arr)]) ELSE rest

\* allProjects.filter(p => user.favorites.includes(p.id)); the stored records
\* are reduced to the keys the demo records carry too.
FavoriteProjects(ps, favs) ==
  LET all == [i \in 1..Len(ps) |-> [id |-> ps[i].id, category |-> ps[i].category,
                                    isDemo |-> FALSE]] \o demoProjectsList
  IN Filter(all, {i \in 1..Len(all) : Includes(favs, all[i].id)})

ListFavoritesStart(p, names) ==
  \E username \in names :
    /\ Begin(p, [op |-> "listFavorites", username |-> username])
    /\ Goto(p, "readUsers", <<>>, <<>>)
    /\ UNCHANGED <<usersFile, projectsFile, clock, likesOk>>

ListFavoritesReadUsers(p) ==
  /\ At(p, "listFavorites", "readUsers")
  /\ LET i == IndexByUsername(readUsers, req[p].username) IN
       IF i = 0
         THEN Respond(p, Reply(404, "User not found.", NoData))
       ELSE IF ~HasFavorites(readUsers[i]) \/ Len(readUsers[i].favorites) = 0
         THEN Respond(p, Reply(200, "", <<>>))
       ELSE Goto(p, "readProjects", readUsers, <<>>)
  /\ UNCHANGED <<usersFile, projectsFile, clock, req, before, likesOk>>

ListFavoritesReadProjects(p) ==
  /\ At(p, "listFavorites", "readProjects")
  /\ LET user == users[p][IndexByUsername(users[p], req[p].username)] IN
       Respond(p, Reply(200, "", FavoriteProjects(readProjects, user.favorites)))
  /\ UNCHANGED <<usersFile, projectsFile, clock, req, before, likesOk>>

\* ---------------------------------------------------------- POST /api/projects
\* category, funding and lookingForInvestment are optional: an omitted one is
\* undefined, which `||` treats like "", 0 and false.
CreateBody(title, description, category, funding, username, lookingForInvestment) ==
  [title |-> title, description |-> description, category |-> category,
   funding |-> funding, username |-> username,
   lookingForInvestment |-> lookingForInvestment]

CreateBodies ==
  { CreateBody("T", "D", "", 0, ada, FALSE),
    CreateBody("T", "D", "health", 50, ghost, TRUE),
    CreateBody("", "D", "", 0, ada, FALSE),
    CreateBody("T", "", "", 0, ada, FALSE),
    CreateBody("T", "D", "", 0, Empty, FALSE) }

NewProject(b, now, created) ==
  [id |-> NumberToString(now), title |-> b.title, description |-> b.description,
   category |-> IF b.category # "" THEN b.category ELSE "tech",
   funding |-> IF b.funding # 0 THEN b.funding ELSE 0,
   creator |-> b.username,
   lookingForInvestment |-> IF b.lookingForInvestment THEN b.lookingForInvestment ELSE FALSE,
   status |-> "active", createdAt |-> ToISOString(created),
   investors |-> <<>>, likes |-> 0]

\* CreateValidate as in the earlier revision of the route, where category is
\* required too
CreateValidateEarlier(b) ==
  IF b.title = "" \/ b.description = "" \/ b.category = "" \/ b.username = Empty
    THEN Reply(400, "All fields are required.", NoData)
    ELSE NoResponse

CreateValidate(b) ==
  IF b.title = "" \/ b.description = "" \/ b.username = Empty
    THEN Reply(400, "Title, description and username are required.", NoData)
    ELSE NoResponse

CreateStart(p, bodies) ==
  \E b \in bodies :
    /\ Len(readProjects) < MaxProjects
    /\ Begin(p, [op |-> "create", body |-> b])
    /\ IF CreateValidate(b) # NoResponse
         THEN Respond(p, CreateValidate(b))
         ELSE Goto(p, "readProjects", <<>>, <<>>)
    /\ UNCHANGED <<usersFile, projectsFile, clock, likesOk>>

CreateRead(p) ==
  /\ At(p, "create", "readProjects")
  /\ \E created \in Later :
       /\ Goto(p, "writeProjects", <<>>,
               Append(readProjects, NewProject(req[p].body, clock, created)))
       /\ clock' = created
  /\ UNCHANGED <<usersFile, projectsFile, req, before, likesOk>>

CreateWrite(p) ==
  /\ At(p, "create", "writeProjects")
  /\ \/ /\ projectsFile' = JSONstringify(projects[p])
        /\ Respond(p, Reply(200, "Project created successfully!",
                            projects[p][Len(projects[p])]))
     \/ /\ projectsFile' = projectsFile
        /\ Respond(p, InternalError)
  /\ UNCHANGED <<usersFile, clock, req, before, likesOk>>

\* ----------------------------------------------------------- GET /api/projects
\* SortByCreatedAtDesc leaving the array in stored order
SortByCreatedAtDescStoredOrder(arr) == arr

RECURSIVE SortByCreatedAtDesc(_)
\* Array.prototype.sort((a, b) => new Date(b.createdAt) - new Date(a.createdAt)),
\* a stable sort: the last element goes behind every element not older than it.
SortByCreatedAtDesc(arr) ==
  IF Len(arr) <= 1 THEN arr
  ELSE LET x == arr[Len(arr)]
           front == SortByCreatedAtDesc(SubSeq(arr, 1, Len(arr) - 1))
           ahead == {i \in 1..Len(front) :
                       DateParse(front[i].createdAt) >= DateParse(x.createdAt)}
           n == Cardinality(ahead)
       IN SubSeq(front, 1, n) \o <<x>> \o SubSeq(front, n + 1, Len(front))

\* req.query of GET /api/projects: a key is absent when the parameter is
\* omitted, and holds the empty text for `?category=`.
ListFilters ==
  { [k \in {} |-> ""],
    [category |-> "health"],
    [category |-> ""],
    [status |-> "active", creator |-> ada],
    [category |-> "tech", status |-> "done"],
    [category |-> "tech", status |-> "active", creator |-> ada] }

\* `if (category)`: the parameter is present and not the empty text
Truthy(q, k) == k \in DOMAIN q /\ q[k] # (IF k = "creator" THEN Empty ELSE "")

ListProjects(ps, q) ==
  LET byCategory == IF Truthy(q, "category")
                      THEN Filter(ps, {i \in 1..Len(ps) : ps[i].category = q.category})
                      ELSE ps
      byStatus == IF Truthy(q, "status")
                    THEN Filter(byCategory, {i \in 1..Len(byCategory) :
                                               byCategory[i].status = q.status})
                    ELSE byCategory
      byCreator == IF Truthy(q, "creator")
                     THEN Filter(byStatus, {i \in 1..Len(byStatus) :
                                              byStatus[i].creator = q.creator})
                     ELSE byStatus
  IN SortByCreatedAtDesc(byCreator)

ListStart(p) ==
  \E q \in ListFilters :
    /\ Begin(p, [op |-> "list", query |-> q])
    /\ Goto(p, "readProjects", <<>>, <<>>)
    /\ UNCHANGED <<usersFile, projectsFile, clock, likesOk>>

ListRead(p) ==
  /\ At(p, "list", "readProjects")
  /\ Respond(p, Reply(200, "", ListProjects(readProjects, req[p].query)))
  /\ UNCHANGED <<usersFile, projectsFile, clock, req, before, likesOk>>

\* ------------------------------------------------------- GET /api/projects/:id
RequestIds == ProjectIds \cup {"nope"}

GetByIdStart(p) ==
  \E id \in RequestIds :
    /\ Begin(p, [op |-> "getById", id |-> id])
    /\ Goto(p, "readProjects", <<>>, <<>>)
    /\ UNCHANGED <<usersFile, projectsFile, clock, likesOk>>

GetByIdRead(p) ==
  /\ At(p, "getById", "readProjects")
  /\ IF IndexById(readProjects, req[p].id) = 0
       THEN Respond(p, Reply(404, "Project not found.", NoData))
       ELSE Respond(p, Reply(200, "", readProjects[IndexById(readProjects, req[p].id)]))
  /\ UNCHANGED <<usersFile, projectsFile, clock, req, before, likesOk>>

\* -------------------------------------------------- POST /api/projects/:id/like
\* LikeApply writing the counter of the last record instead of the found one
LikeApplyLast(ps, projectIndex) == [ps EXCEPT ![Len(ps)].likes = @ + 1]

\* projects[projectIndex].likes += 1
LikeApply(ps, projectIndex) == [ps EXCEPT ![projectIndex].likes = @ + 1]

\* the likes value the response reports, read from the in-memory array
LikeResponse(ps, projectIndex) ==
  Reply(200, "Project liked!", ps[projectIndex].likes)

LikeStart(p) ==
  \E id \in RequestIds :
    /\ id \in ProjectIds => likesOk[id] < MaxLikes
    /\ Begin(p, [op |-> "like", id |-> id])
    /\ Goto(p, "readProjects", <<>>, <<>>)
    /\ UNCHANGED <<usersFile, projectsFile, clock, likesOk>>

LikeRead(p) ==
  /\ At(p, "like", "readProjects")
  /\ LET projectIndex == IndexById(readProjects, req[p].id) IN
       IF projectIndex = 0
         THEN Respond(p, Reply(404, "Project not found.", NoData))
         ELSE Goto(p, "writeProjects", <<>>, LikeApply(readProjects, projectIndex))
  /\ UNCHANGED <<usersFile, projectsFile, clock, req, before, likesOk>>

\* LikeWrite incrementing the counter in the file as it is at the write
LikeWriteOnCurrentFile(p) ==
  /\ At(p, "like", "writeProjects")
  /\ \/ /\ IF IndexById(readProjects, req[p].id) # 0
              THEN projectsFile' = JSONstringify(
                     LikeApply(readProjects, IndexById(readProjects, req[p].id)))
              ELSE projectsFile' = JSONstringify(projects[p])
        /\ Respond(p, LikeResponse(projects[p], IndexById(projects[p], req[p].id)))
        /\ likesOk' = [likesOk EXCEPT ![req[p].id] = @ + 1]
     \/ /\ projectsFile' = projectsFile
        /\ Respond(p, InternalError)
        /\ likesOk' = likesOk
  /\ UNCHANGED <<usersFile, clock, req, before>>

LikeWrite(p) ==
  /\ At(p, "like", "writeProjects")
  /\ \/ /\ projectsFile' = JSONstringify(projects[p])
        /\ Respond(p, LikeResponse(projects[p], IndexById(projects[p], req[p].id)))
        /\ likesOk' = [likesOk EXCEPT ![req[p].id] = @ + 1]
     \/ /\ projectsFile' = projectsFile
        /\ Respond(p, InternalError)
        /\ likesOk' = likesOk
  /\ UNCHANGED <<usersFile, clock, req, before>>

\* ---------------------------------------------------- DELETE /api/projects/:id
DeleteUsers == {Empty, ada, ghost}

\* DeleteApply without the ownership check
DeleteApplyNoOwner(ps, id, username) ==
  LET projectIndex == IndexById(ps, id) IN
  IF projectIndex = 0
    THEN [res |-> Reply(404, "Project not found.", NoData), projects |-> ps]
    ELSE [res |-> NoResponse, projects |-> Splice(ps, projectIndex)]

\* DeleteApply cutting every record that has the id
DeleteApplyAllWithId(ps, id, username) ==
  LET projectIndex == IndexById(ps, id) IN
  IF projectIndex = 0
    THEN [res |-> Reply(404, "Project not found.", NoData), projects |-> ps]
  ELSE IF ps[projectIndex].creator # username
    THEN [res |-> Reply(403, "You can only delete your own projects.", NoData),
          projects |-> ps]
  ELSE [res |-> NoResponse,
        projects |-> Filter(ps, {i \in 1..Len(ps) : ps[i].id # id})]

\* The block after readProjects: 404, 403, or the array with the record cut.
DeleteApply(ps, id, username) ==
  LET projectIndex == IndexById(ps, id) IN
  IF projectIndex = 0
    THEN [res |-> Reply(404, "Project not found.", NoData), projects |-> ps]
  ELSE IF ps[projectIndex].creator # username
    THEN [res |-> Reply(403, "You can only delete your own projects.", NoData),
          projects |-> ps]
  ELSE [res |-> NoResponse, projects |-> Splice(ps, projectIndex)]

DeleteStart(p) ==
  \E id \in RequestIds, username \in DeleteUsers :
    /\ Begin(p, [op |-> "delete", id |-> id, username |-> username])
    /\ IF username = Empty
         THEN Respond(p, Reply(400, "Username is required.", NoData))
         ELSE Goto(p, "readProjects", <<>>, <<>>)
    /\ UNCHANGED <<usersFile, projectsFile, clock, likesOk>>

\* DeleteRead with the splice and the write done before the ownership check
DeleteReadWritesFirst(p) ==
  /\ At(p, "delete", "readProjects")
  /\ LET projectIndex == IndexById(readProjects, req[p].id) IN
       IF projectIndex = 0
         THEN /\ Respond(p, Reply(404, "Project not found.", NoData))
              /\ projectsFile' = projectsFile
       ELSE IF readProjects[projectIndex].creator # req[p].username
         THEN /\ Respond(p, Reply(403, "You can only delete your own projects.", NoData))
              /\ projectsFile' = JSONstringify(Splice(readProjects, projectIndex))
       ELSE /\ Goto(p, "writeProjects", <<>>, Splice(readProjects, projectIndex))
            /\ projectsFile' = projectsFile
  /\ UNCHANGED <<usersFile, clock, req, before, likesOk>>

DeleteRead(p) ==
  /\ At(p, "delete", "readProjects")
  /\ LET out == DeleteApply(readProjects, req[p].id, req[p].username) IN
       IF out.res # NoResponse
         THEN Respond(p, out.res)
         ELSE Goto(p, "writeProjects", <<>>, out.projects)
  /\ UNCHANGED <<usersFile, projectsFile, clock, req, before, likesOk>>

\* DeleteWrite also taking the deleted id out of every user's favorites
DeleteWriteCleansFavorites(p) ==
  /\ At(p, "delete", "writeProjects")
  /\ \/ /\ projectsFile' = JSONstringify(projects[p])
        /\ usersFile' = JSONstringify(
             [i \in 1..Len(readUsers) |->
                IF HasFavorites(readUsers[i])
                  THEN [readUsers[i] EXCEPT !.favorites =
                          Filter(@, {k \in 1..Len(@) : @[k] # req[p].id})]
                  ELSE readUsers[i]])
        /\ Respond(p, Reply(200, "Project deleted successfully!", NoData))
     \/ /\ projectsFile' = projectsFile
        /\ usersFile' = usersFile
        /\ Respond(p, InternalError)
  /\ UNCHANGED <<clock, req, before, likesOk>>

DeleteWrite(p) ==
  /\ At(p, "delete", "writeProjects")
  /\ \/ /\ projectsFile' = JSONstringify(projects[p])
        /\ Respond(p, Reply(200, "Project deleted successfully!", NoData))
     \/ /\ projectsFile' = projectsFile
        /\ Respond(p, InternalError)
  /\ UNCHANGED <<usersFile, clock, req, before, likesOk>>

\* ------------------------------------------------- GET /api/user/:username
\* OmitPassword leaving the record as it is stored
OmitPasswordKeepsAll(u) == u

\* const { password, ...userWithoutPassword } = user
OmitPassword(u) == [k \in DOMAIN u \ {"password"} |-> u[k]]

GetUserStart(p, names) ==
  \E username \in names :
    /\ Begin(p, [op |-> "getUser", username |-> username])
    /\ Goto(p, "readUsers", <<>>, <<>>)
    /\ UNCHANGED <<usersFile, projectsFile, clock, likesOk>>

GetUserRead(p) ==
  /\ At(p, "getUser", "readUsers")
  /\ LET i == IndexByUsername(readUsers, req[p].username) IN
       IF i = 0
         THEN Respond(p, Reply(404, "User not found.", NoData))
         ELSE Respond(p, Reply(200, "", OmitPassword(readUsers[i])))
  /\ UNCHANGED <<usersFile, projectsFile, clock, req, before, likesOk>>

\* ----------------------------------------------------------- GET /api/users
\* users.map(user => userWithoutPassword).sort(createdAt descending)
ListUsers(us) == SortByCreatedAtDesc([i \in 1..Len(us) |-> OmitPassword(us[i])])

ListUsersStart(p) ==
  /\ Begin(p, [op |-> "listUsers"])
  /\ Goto(p, "readUsers", <<>>, <<>>)
  /\ UNCHANGED <<usersFile, projectsFile, clock, likesOk>>

ListUsersRead(p) ==
  /\ At(p, "listUsers", "readUsers")
  /\ Respond(p, Reply(200, "", ListUsers(readUsers)))
  /\ UNCHANGED <<usersFile, projectsFile, clock, req, before, likesOk>>


\* ------------------------------------------------- writes that fail half-way
\* await writeUsers(users) throws after users.json was truncated: any handler
\* suspended at that call lands in its catch block.
TornUsersWrite(p) ==
  /\ pc[p] = "writeUsers"
  /\ usersFile' = TornWrite(users[p])
  /\ Respond(p, InternalError)
  /\ UNCHANGED <<projectsFile, clock, req, before, likesOk>>

\* await writeProjects(projects) throws after projects.json was truncated.
TornProjectsWrite(p) ==
  /\ pc[p] = "writeProjects"
  /\ projectsFile' = TornWrite(projects[p])
  /\ Respond(p, InternalError)
  /\ UNCHANGED <<usersFile, clock, req, before, likesOk>>

\* ------------------------------------------- outside the route handlers
\* bodyParser.json() rejects the body: next(err) reaches the error middleware.
BadBody(p) ==
  /\ Begin(p, [op |-> "badBody"])
  /\ Respond(p, Reply(500, "Something went wrong!", NoData))
  /\ UNCHANGED <<usersFile, projectsFile, clock, likesOk>>

\* No route matches: the final middleware answers.
UnknownRoute(p) ==
  /\ Begin(p, [op |-> "unknownRoute"])
  /\ Respond(p, Reply(404, "Route not found.", NoData))
  /\ UNCHANGED <<usersFile, projectsFile, clock, likesOk>>

\* --------------------------------------------------------- the specifications
\* The requests each specification draws from.
adaSignup == SignupBody("Ada", "L", ada, mailA, "secret1", "entrepreneur")
bobSignup == SignupBody("Bob", "M", mailA, mailX, "hunter22", "investor")
mailSignup == SignupBody("Eve", "N", mailA, mailA, "hunter22", "investor")
AllSignups == ValidSignups \cup InvalidSignups
AdaOnly == {adaSignup}
AdaAndBob == {adaSignup, bobSignup}
AdaAndMail == {adaSignup, mailSignup}
AdaProject == {CreateBody("T", "D", "", 0, ada, FALSE)}
JustAda == {ada}
BioOnly == {[bio |-> "x"]}
DemoOne == {"demo-1"}
DemoTwo == {"demo-1", "demo-2"}
RemoveFavoriteIds == FavoriteIds \ {""}
FavoriteListers == FavoriteUsers \ {Empty}

shortSignup == SignupBody("Ada", "L", ada, mailA, "abc", "entrepreneur")
AdaAndShort == {adaSignup, shortSignup}
UserReaders == {ada, ghost}

Signup(p, bodies) ==
  \/ SignupStart(p, bodies)
  \/ SignupRead(p)
  \/ SignupHash(p)
  \/ SignupWrite(p)

Login(p) ==
  \/ LoginStart(p)
  \/ LoginRead(p)
  \/ LoginCompare(p)

UpdateProfile(p, owners, partials) ==
  \/ UpdateProfileStart(p, owners, partials)
  \/ UpdateProfileRead(p)
  \/ UpdateProfileWrite(p)

AddFavorite(p, names, ids) ==
  \/ AddFavoriteStart(p, names, ids)
  \/ AddFavoriteReadUsers(p)
  \/ AddFavoriteReadProjects(p)
  \/ AddFavoriteWrite(p)

RemoveFavorite(p, names, ids) ==
  \/ RemoveFavoriteStart(p, names, ids)
  \/ RemoveFavoriteRead(p)
  \/ RemoveFavoriteWrite(p)

ListFavorites(p, names) ==
  \/ ListFavoritesStart(p, names)
  \/ ListFavoritesReadUsers(p)
  \/ ListFavoritesReadProjects(p)

Create(p, bodies) ==
  \/ CreateStart(p, bodies)
  \/ CreateRead(p)
  \/ CreateWrite(p)

List(p) == ListStart(p) \/ ListRead(p)
GetById(p) == GetByIdStart(p) \/ GetByIdRead(p)
Like(p) == LikeStart(p) \/ LikeRead(p) \/ LikeWrite(p)
Delete(p) == DeleteStart(p) \/ DeleteRead(p) \/ DeleteWrite(p)

GetUser(p, names) == GetUserStart(p, names) \/ GetUserRead(p)
ListAllUsers(p) == ListUsersStart(p) \/ ListUsersRead(p)

\* One request at a time: signup and login.
Next ==
  \/ Tick
  \/ \E p \in Seq1 : Signup(p, AllSignups) \/ Login(p)
Spec == Init /\ [][Next]_vars

\* One request at a time: signup and profile update.
NextProfile ==
  \/ Tick
  \/ \E p \in Seq1 :
       \/ Signup(p, AdaAndBob)
       \/ UpdateProfile(p, ProfileOwners, PartialProfiles)
SpecProfile == Init /\ [][NextProfile]_vars

\* One request at a time: the project store.
NextProjects ==
  \/ Tick
  \/ \E p \in Seq1 :
       \/ Signup(p, AdaOnly)
       \/ Create(p, CreateBodies)
       \/ Delete(p)
SpecProjects == Init /\ [][NextProjects]_vars

\* One request at a time: create, like and the read-only project requests.
NextLikes ==
  \/ Tick
  \/ \E p \in Seq1 : Create(p, CreateBodies) \/ Like(p) \/ GetById(p) \/ List(p)
SpecLikes == Init /\ [][NextLikes]_vars

\* One request at a time: favorites over stored and demo projects.
NextFavorites ==
  \/ Tick
  \/ \E p \in Seq1 :
       \/ Signup(p, AdaOnly)
       \/ Create(p, AdaProject)
       \/ Delete(p)
       \/ AddFavorite(p, FavoriteUsers, FavoriteIds)
       \/ RemoveFavorite(p, FavoriteUsers, RemoveFavoriteIds)
       \/ ListFavorites(p, FavoriteListers)
SpecFavorites == Init /\ [][NextFavorites]_vars

\* Two requests in flight on the users file, their awaits interleaved: signups
\* on both processes, and the other writers of the users file on the first.
NextConcurrentUsers ==
  \/ Tick
  \/ \E p \in Procs : Signup(p, AdaAndMail)
  \/ \E p \in Seq1 :
       \/ UpdateProfile(p, JustAda, BioOnly)
       \/ AddFavorite(p, JustAda, DemoOne)
       \/ RemoveFavorite(p, JustAda, DemoOne)
SpecConcurrentUsers == Init /\ [][NextConcurrentUsers]_vars

\* One request at a time: every handler that can refuse a request after the
\* files have content.
NextErrors ==
  \/ Tick
  \/ \E p \in Seq1 :
       \/ Signup(p, AdaAndShort)
       \/ Login(p)
       \/ Create(p, AdaProject)
       \/ Delete(p)
       \/ AddFavorite(p, FavoriteUsers, FavoriteIds)
SpecErrors == Init /\ [][NextErrors]_vars

\* Two requests in flight on the projects file, their awaits interleaved:
\* likes and deletes on the first process, creates on the second.
NextConcurrentProjects ==
  \/ Tick
  \/ \E p \in Seq1 : Like(p) \/ Delete(p)
  \/ \E p \in Seq2 : Create(p, AdaProject)
SpecConcurrentProjects == Init /\ [][NextConcurrentProjects]_vars

\* One request at a time: the requests that answer with user records.
NextUserReads ==
  \/ Tick
  \/ \E p \in Seq1 :
       \/ Signup(p, AdaAndBob)
       \/ Login(p)
       \/ UpdateProfile(p, JustAda, BioOnly)
       \/ GetUser(p, UserReaders)
       \/ ListAllUsers(p)
SpecUserReads == Init /\ [][NextUserReads]_vars

\* One request at a time, the writers of both files, with writes that may fail
\* before or after the file was truncated.
NextFailedWrites ==
  \/ Tick
  \/ \E p \in Seq1 :
       \/ Signup(p, AdaOnly)
       \/ UpdateProfile(p, JustAda, BioOnly)
       \/ Create(p, AdaProject)
       \/ Like(p)
       \/ TornUsersWrite(p)
       \/ TornProjectsWrite(p)
SpecFailedWrites == Init /\ [][NextFailedWrites]_vars

\* One request at a time on files that are missing at first and unparsable
\* after a write that failed half-way.
NextStorageFaults ==
  \/ Tick
  \/ \E p \in Seq1 :
       \/ Signup(p, AdaOnly)
       \/ GetUser(p, UserReaders)
       \/ ListAllUsers(p)
       \/ Create(p, AdaProject)
       \/ Delete(p)
       \/ GetById(p)
       \/ List(p)
       \/ TornUsersWrite(p)
       \/ TornProjectsWrite(p)
SpecStorageFaults == Init /\ [][NextStorageFaults]_vars

\* Two requests in flight on the users file, writes that may fail, and the
\* event loop running every pending file or hash callback of a suspended
\* handler.
PendingStep(p) ==
  \/ SignupRead(p) \/ SignupHash(p) \/ SignupWrite(p)
  \/ TornUsersWrite(p)
NextAnswered ==
  \/ Tick
  \/ \E p \in Procs :
       \/ SignupStart(p, AdaAndShort)
       \/ BadBody(p)
       \/ UnknownRoute(p)
       \/ PendingStep(p)
SpecAnswered ==
  Init /\ [][NextAnswered]_vars /\ \A p \in Procs : WF_vars(PendingStep(p))

\* Two like requests in flight on the projects file; the first process
\* creates a project while projects.json does not exist yet.
CreateFirst(p) == projectsFile = NoFile /\ Create(p, AdaProject)
NextConcurrentLikes ==
  \/ Tick
  \/ \E p \in Seq1 : CreateFirst(p)
  \/ \E p \in Procs : Like(p)
SpecConcurrentLikes == Init /\ [][NextConcurrentLikes]_vars

\* Two addFavorite requests in flight on the users file; signup and
\* removeFavorite on the first process.
NextConcurrentFavorites ==
  \/ Tick
  \/ \E p \in Seq1 :
       \/ Signup(p, AdaOnly)
       \/ RemoveFavorite(p, JustAda, DemoTwo)
  \/ \E p \in Procs : AddFavorite(p, JustAda, DemoTwo)
SpecConcurrentFavorites == Init /\ [][NextConcurrentFavorites]_vars

\* One request at a time: every route.
NextAllRoutes ==
  \/ Tick
  \/ \E p \in Seq1 :
       \/ Signup(p, AdaOnly)
       \/ Login(p)
       \/ GetUser(p, JustAda)
       \/ UpdateProfile(p, JustAda, BioOnly)
       \/ ListAllUsers(p)
       \/ CreateFirst(p)
       \/ List(p)
       \/ GetById(p)
       \/ Like(p)
       \/ Delete(p)
       \/ AddFavorite(p, JustAda, DemoOne)
       \/ RemoveFavorite(p, JustAda, DemoOne)
       \/ ListFavorites(p, JustAda)
SpecAllRoutes == Init /\ [][NextAllRoutes]_vars

\* One request at a time: create, like and delete.
NextLikeDelete ==
  \/ Tick
  \/ \E p \in Seq1 : Create(p, AdaProject) \/ Like(p) \/ Delete(p)
SpecLikeDelete == Init /\ [][NextLikeDelete]_vars

\* No other request is between its arrival and its response.
OneAtATime(p) == \A q \in Procs \ {p} : pc[q] \in {"idle", "done"}

\* One request at a time, from two clients: the first signs up and adds
\* favorites, the second removes them.
NextAddThenRemove ==
  \/ Tick
  \/ \E p \in Seq1 :
       /\ OneAtATime(p)
       /\ Signup(p, AdaAndBob) \/ AddFavorite(p, JustAda, DemoTwo)
  \/ \E p \in Seq2 :
       /\ OneAtATime(p)
       /\ RemoveFavorite(p, JustAda, DemoTwo)
SpecAddThenRemove == Init /\ [][NextAddThenRemove]_vars

\* ------------------------------------------------------------------ properties
Done(p, op) == pc[p] = "done" /\ req[p].op = op
UsersBefore(p) == ReadFile(before[p].users)
ProjectsBefore(p) == ReadFile(before[p].projects)
FilesUnchanged(p) == usersFile = before[p].users /\ projectsFile = before[p].projects
DemoIds == {"demo-" \o NumberToString(n) : n \in 1..NumDemoProjects}
Favorites(u) == IF HasFavorites(u) THEN u.favorites ELSE <<>>

\* C1: in every persisted state of users.json no two stored users share a
\* username and no two share an e-mail, whatever the interleaving of the read,
\* hash and write steps of concurrent requests.
C1_UniqueUsernameEmail ==
  \A i, j \in 1..Len(readUsers) :
    i # j => /\ readUsers[i].username # readUsers[j].username
             /\ readUsers[i].email # readUsers[j].email

\* Two signups for the same username were in flight together, both answered
\* success, and the file holds one of them.
C1_Witness ==
  /\ Done(1, "signup") /\ Done(2, "signup")
  /\ req[1].body.username = req[2].body.username
  /\ res[1].status = 200 /\ res[2].status = 200
  /\ before[1].users = before[2].users
  /\ Len(readUsers) = 1

\* C2 (as claimed): a login with both fields non-empty succeeds iff some stored
\* user has that username or e-mail and the password verifies against that
\* user's hash; with no such user it fails as not-found, with a user but no
\* verifying hash as unauthorized; nothing is written.
C2_LoginIffSomeUserVerifies ==
  \A p \in Procs :
    (Done(p, "login") /\ req[p].usernameOrEmail # Empty /\ req[p].password # "") =>
      LET us == UsersBefore(p)
          matches == {i \in 1..Len(us) : \/ us[i].username = req[p].usernameOrEmail
                                         \/ us[i].email = req[p].usernameOrEmail}
          verified == {i \in matches : bcryptCompare(req[p].password, us[i].password)}
      IN /\ res[p].status = 200 <=> verified # {}
         /\ matches = {} => res[p].message = "User not found."
         /\ (matches # {} /\ verified = {}) => res[p].status = 401
         /\ FilesUnchanged(p)

\* C3: a signup that passes validation and repeats a stored username or a
\* stored e-mail is answered 409 and leaves users.json as it was.
C3_SignupConflictUnchanged ==
  \A p \in Procs :
    (/\ Done(p, "signup")
     /\ SignupValidate(req[p].body) = NoResponse
     /\ \E i \in 1..Len(UsersBefore(p)) :
          \/ UsersBefore(p)[i].username = req[p].body.username
          \/ UsersBefore(p)[i].email = req[p].body.email)
    => /\ res[p].status = 409
       /\ usersFile = before[p].users
       /\ Len(readUsers) = Len(UsersBefore(p))

\* A signup with a fresh username and a stored e-mail was refused.
C3_Witness ==
  /\ Done(1, "signup")
  /\ res[1].status = 409
  /\ \A i \in 1..Len(readUsers) : readUsers[i].username # req[1].body.username
  /\ \E i \in 1..Len(readUsers) : readUsers[i].email = req[1].body.email

\* C4: a delete of a stored project by a non-empty username that is not the
\* creator of the record the id names is answered 403, and projects.json is
\* as it was, that record included.
C4_DeleteByNonCreatorForbidden ==
  \A p \in Procs :
    (/\ Done(p, "delete")
     /\ req[p].username # Empty
     /\ \E i \in 1..Len(ProjectsBefore(p)) :
          /\ ProjectsBefore(p)[i].id = req[p].id
          /\ \A j \in 1..(i - 1) : ProjectsBefore(p)[j].id # req[p].id
          /\ ProjectsBefore(p)[i].creator # req[p].username)
    => /\ res[p].status = 403
       /\ projectsFile = before[p].projects

\* A non-creator's delete of a stored project was refused.
C4_Witness ==
  /\ Done(1, "delete")
  /\ res[1].status = 403
  /\ \E i \in 1..Len(readProjects) :
       readProjects[i].id = req[1].id /\ readProjects[i].creator # req[1].username

\* C5 (as claimed): a create-project request succeeds only if its username is
\* that of a stored user; one naming an unknown username adds no project.
C5_CreateNeedsStoredUser ==
  \A p \in Procs :
    Done(p, "create") =>
      LET known == \E i \in 1..Len(UsersBefore(p)) :
                     UsersBefore(p)[i].username = req[p].body.username
      IN /\ res[p].status = 200 => known
         /\ ~known => projectsFile = before[p].projects

\* C6: with one request at a time, the likes of the record an id names equals
\* the number of like requests on that id answered with success, and a like
\* response carries the value just persisted.
C6_LikesCountSuccesses ==
  /\ \A id \in ProjectIds :
       IndexById(readProjects, id) # 0 =>
         readProjects[IndexById(readProjects, id)].likes = likesOk[id]
  /\ \A p \in Procs :
       (Done(p, "like") /\ res[p].status = 200) =>
         /\ IndexById(readProjects, req[p].id) # 0
         /\ res[p].data = readProjects[IndexById(readProjects, req[p].id)].likes
         /\ res[p].data = ProjectsBefore(p)[IndexById(ProjectsBefore(p), req[p].id)].likes + 1

\* Two likes on one project, with a like on another project in between or
\* around them, have all been answered.
C6_Witness ==
  /\ Done(1, "like") /\ res[1].status = 200
  /\ \E a, b \in ProjectIds :
       /\ a # b
       /\ IndexById(readProjects, a) # 0 /\ IndexById(readProjects, b) # 0
       /\ likesOk[a] >= 2 /\ likesOk[b] >= 1
       /\ readProjects[IndexById(readProjects, a)].likes = likesOk[a]

\* C7: for a stored user, addFavorite of a resolvable id already in the list
\* is answered 409 and removeFavorite of an id not in the list (or with no
\* list) is answered 404; neither writes users.json.
C7_DuplicateAndAbsentFavorite ==
  \A p \in Procs :
    LET us == UsersBefore(p)
        i == IndexByUsername(us, req[p].username)
    IN /\ (/\ Done(p, "addFavorite")
           /\ req[p].username # Empty /\ i # 0
           /\ \/ req[p].projectId \in DemoIds
              \/ \E k \in 1..Len(ProjectsBefore(p)) :
                   ProjectsBefore(p)[k].id = req[p].projectId
           /\ Includes(Favorites(us[i]), req[p].projectId))
          => /\ res[p].status = 409
             /\ usersFile = before[p].users
             /\ Favorites(readUsers[i]) = Favorites(us[i])
       /\ (/\ Done(p, "removeFavorite")
           /\ req[p].username # Empty /\ i # 0
           /\ ~Includes(Favorites(us[i]), req[p].projectId))
          => /\ res[p].status = 404
             /\ usersFile = before[p].users

\* A duplicate addFavorite on a list of two ids was refused.
C7_Witness ==
  /\ Done(1, "addFavorite")
  /\ res[1].status = 409
  /\ \E i \in 1..Len(readUsers) :
       /\ readUsers[i].username = req[1].username
       /\ Len(Favorites(readUsers[i])) = 2
       /\ Includes(Favorites(readUsers[i]), req[1].projectId)

\* C8 (as claimed): listFavorites returns, for every id in the user's
\* favorites list, a record with that id.
C8_ListFavoritesCoversList ==
  \A p \in Procs :
    (Done(p, "listFavorites") /\ res[p].status = 200) =>
      LET favs == Favorites(UsersBefore(p)[IndexByUsername(UsersBefore(p), req[p].username)])
      IN \A k \in 1..Len(favs) :
           \E j \in 1..Len(res[p].data) : res[p].data[j].id = favs[k]

\* C9 (as claimed): for a stored user addFavorite succeeds only on the id of a
\* stored or demo project and is answered 404 on any other projectId, users.json
\* unchanged; for a username no stored user has it is answered 404 whatever
\* the projectId.
C9_AddFavoriteNotFound ==
  \A p \in Procs :
    (Done(p, "addFavorite") /\ req[p].username # Empty) =>
      LET us == UsersBefore(p)
          known == \E i \in 1..Len(us) : us[i].username = req[p].username
          resolves == \/ req[p].projectId \in DemoIds
                      \/ \E k \in 1..Len(ProjectsBefore(p)) :
                           ProjectsBefore(p)[k].id = req[p].projectId
      IN /\ (known /\ res[p].status = 200) => resolves
         /\ (known /\ ~resolves) => (res[p].status = 404 /\ usersFile = before[p].users)
         /\ ~known => res[p].status = 404

\* C9 (amended): the same for requests whose username and projectId are both
\* non-empty; a request with either empty is answered 400, users.json unchanged.
C9_AddFavoriteNotFoundNonEmpty ==
  \A p \in Procs :
    Done(p, "addFavorite") =>
      LET us == UsersBefore(p)
          known == \E i \in 1..Len(us) : us[i].username = req[p].username
          resolves == \/ req[p].projectId \in DemoIds
                      \/ \E k \in 1..Len(ProjectsBefore(p)) :
                           ProjectsBefore(p)[k].id = req[p].projectId
      IN IF req[p].username = Empty \/ req[p].projectId = ""
           THEN res[p].status = 400 /\ usersFile = before[p].users
           ELSE /\ (known /\ res[p].status = 200) => resolves
                /\ (known /\ ~resolves) =>
                     (res[p].status = 404 /\ usersFile = before[p].users)
                /\ ~known => res[p].status = 404

\* A stored user's addFavorite of a non-empty id naming no project was refused,
\* and one of a stored project's id had succeeded before.
C9_Witness ==
  /\ Done(1, "addFavorite")
  /\ res[1].status = 404
  /\ req[1].projectId = "demo-9"
  /\ \E i \in 1..Len(readUsers) :
       /\ readUsers[i].username = req[1].username
       /\ Includes(Favorites(readUsers[i]), NumberToString(1))

\* C10: after a successful updateProfile of a stored user the stored profile
\* has the supplied value under every supplied key and the previous value under
\* every other key; for an unknown username the answer is 404 and nothing is
\* written.
C10_ProfileMerge ==
  \A p \in Procs :
    Done(p, "updateProfile") =>
      LET us == UsersBefore(p)
          i == IndexByUsername(us, req[p].username)
          partial == req[p].profile
      IN IF i = 0
           THEN res[p].status = 404 /\ FilesUnchanged(p)
           ELSE /\ res[p].status \in {200, 500}
                /\ res[p].status = 200 =>
                     LET old == us[i].profile
                         new == readUsers[i].profile
                     IN /\ DOMAIN new = DOMAIN old \cup DOMAIN partial
                        /\ \A k \in DOMAIN partial : new[k] = partial[k]
                        /\ \A k \in DOMAIN old \ DOMAIN partial : new[k] = old[k]

\* An update supplying only bio was applied to a profile whose skills had been
\* set before, and the skills are still there.
C10_Witness ==
  /\ Done(1, "updateProfile")
  /\ res[1].status = 200
  /\ DOMAIN req[1].profile = {"bio"}
  /\ \E i \in 1..Len(readUsers) :
       /\ readUsers[i].username = req[1].username
       /\ readUsers[i].profile.skills = <<"js">>
       /\ readUsers[i].profile.bio = req[1].profile.bio
       /\ UsersBefore(1)[i].profile.bio # req[1].profile.bio

ClientErrors == {400, 401, 403, 404, 409}

\* C11: a request answered 400, 401, 403, 404 or 409 has written neither file
\* (with one request at a time both files are as they were when it arrived),
\* and every step that changes a file is the step in which a request is
\* answered 200 or 500.
C11_ErrorsWriteNothing ==
  /\ [](\A p \in Procs :
          (pc[p] = "done" /\ res[p].status \in ClientErrors) => FilesUnchanged(p))
  /\ [][(usersFile' # usersFile \/ projectsFile' # projectsFile) =>
          \E p \in Procs : /\ pc[p] # "done" /\ pc'[p] = "done"
                           /\ res'[p].status \in {200, 500}]_vars

\* A non-creator's delete was refused while both files held a record.
C11_Witness ==
  /\ Done(1, "delete")
  /\ res[1].status = 403
  /\ Len(readUsers) = 1
  /\ Len(readProjects) >= 1

Stored(username) == \E i \in 1..Len(readUsers) : readUsers[i].username = username

\* C12 (as claimed): a user is stored by the step that answers the signup with
\* success, and no step of any request takes a stored username out of
\* users.json, whatever the interleaving of the requests on the file.
C12_SignedUpUserStays ==
  [][\A username \in Usernames : Stored(username) => Stored(username)']_vars

\* C13 (as claimed): between two consecutive states of projects.json, a record
\* whose id and creator are stored in the first and in no record of the second
\* was removed by the writing step of a delete request for that id by that
\* creator, answered success; this for interleaved create, like and delete.
C13_OnlyCreatorDeleteRemoves ==
  [][\A i \in 1..Len(readProjects) :
       (\A j \in 1..Len(readProjects') :
          \/ readProjects'[j].id # readProjects[i].id
          \/ readProjects'[j].creator # readProjects[i].creator)
       => \E p \in Procs :
            /\ At(p, "delete", "writeProjects")
            /\ req[p].id = readProjects[i].id
            /\ req[p].username = readProjects[i].creator
            /\ pc'[p] = "done" /\ res'[p].status = 200]_vars

\* the hashes stored when p's request arrived and now
StoredHashes(p) ==
  {UsersBefore(p)[i].password : i \in 1..Len(UsersBefore(p))}
  \cup {readUsers[i].password : i \in 1..Len(readUsers)}
TextKeys == {"id", "firstname", "lastname", "userType", "password", "bio",
             "location", "website"}
\* the record d has no password key and no text value that is a stored hash
NoPasswordIn(d, hashes) ==
  /\ "password" \notin DOMAIN d
  /\ \A k \in DOMAIN d \cap TextKeys : d[k] \notin hashes

Mutating == {"signup", "updateProfile", "addFavorite", "removeFavorite",
             "create", "like", "delete"}

\* C15 (as claimed): a mutating request answered 500 leaves both collections,
\* as the next request reads them, the same as when it arrived.
C15_FailedWriteKeepsCollection ==
  \A p \in Procs :
    (pc[p] = "done" /\ req[p].op \in Mutating /\ res[p].status = 500) =>
      /\ readUsers = UsersBefore(p)
      /\ readProjects = ProjectsBefore(p)

\* the file is missing, or its text is not JSON
Unreadable(file) == file[1] # "json"

C17_DistinctIds ==
  /\ \A i, j \in 1..Len(readProjects) :
       i # j => readProjects[i].id # readProjects[j].id
  /\ \A i, j \in 1..Len(readUsers) :
       i # j => readUsers[i].id # readUsers[j].id

Count(arr, x) == Cardinality({i \in 1..Len(arr) : arr[i] = x})
NewestFirst(arr) ==
  \A i, j \in 1..Len(arr) :
    i < j => DateParse(arr[i].createdAt) >= DateParse(arr[j].createdAt)
\* arr holds exactly the records of ps whose index is in Hits
ExactlyThe(arr, ps, Hits) ==
  /\ Len(arr) = Cardinality(Hits)
  /\ \A i \in Hits : Count(arr, ps[i]) = Cardinality({j \in Hits : ps[j] = ps[i]})

\* C18 (as claimed): GET /api/projects returns exactly the stored projects whose
\* field equals the value of every supplied filter, newest first.
C18_ListMatchesSuppliedFilters ==
  \A p \in Procs :
    Done(p, "list") =>
      LET ps == ProjectsBefore(p)
          q == req[p].query
      IN /\ res[p].status = 200
         /\ ExactlyThe(res[p].data, ps,
                       {i \in 1..Len(ps) : \A k \in DOMAIN q : ps[i][k] = q[k]})
         /\ NewestFirst(res[p].data)

\* C18 (amended): the same, a filter supplied with the empty text constraining
\* nothing, like an omitted one.
C18_ListMatchesNonEmptyFilters ==
  \A p \in Procs :
    Done(p, "list") =>
      LET ps == ProjectsBefore(p)
          q == req[p].query
      IN /\ res[p].status = 200
         /\ ExactlyThe(res[p].data, ps,
                       {i \in 1..Len(ps) :
                          \A k \in DOMAIN q :
                            q[k] # (IF k = "creator" THEN Empty ELSE "") => ps[i][k] = q[k]})
         /\ NewestFirst(res[p].data)

\* A list filtered by status and creator returned the one matching project of
\* two stored, and the stored order is oldest first.
C18_Witness ==
  /\ Done(1, "list")
  /\ DOMAIN req[1].query = {"status", "creator"}
  /\ Len(readProjects) = 2
  /\ Len(res[1].data) = 1
  /\ res[1].data[1] = readProjects[2]
  /\ DateParse(readProjects[1].createdAt) < DateParse(readProjects[2].createdAt)

\* C19: a create request with title, description and username and with
\* category, funding and lookingForInvestment omitted is not refused, and when
\* answered success it has appended a record with category "tech", funding 0,
\* lookingForInvestment false, status "active", no investors and likes 0; a
\* request with an empty title, description or username is answered 400 and
\* projects.json is as it was.
C19_CreateDefaults ==
  \A p \in Procs :
    Done(p, "create") =>
      LET b == req[p].body
          stored == readProjects[Len(readProjects)]
      IN IF b.title = "" \/ b.description = "" \/ b.username = Empty
           THEN res[p].status = 400 /\ projectsFile = before[p].projects
           ELSE /\ res[p].status \in {200, 500}
                /\ (/\ res[p].status = 200
                    /\ b.category = "" /\ b.funding = 0 /\ ~b.lookingForInvestment)
                   => /\ readProjects = Append(ProjectsBefore(p), stored)
                      /\ stored = res[p].data
                      /\ stored.title = b.title
                      /\ stored.description = b.description
                      /\ stored.creator = b.username
                      /\ stored.category = "tech"
                      /\ stored.funding = 0
                      /\ stored.lookingForInvestment = FALSE
                      /\ stored.status = "active"
                      /\ stored.investors = <<>>
                      /\ stored.likes = 0

\* A create with the three optional fields omitted was appended, with the
\* defaults, to a file that held a project with its own category and funding.
C19_Witness ==
  /\ Done(1, "create")
  /\ res[1].status = 200
  /\ req[1].body.category = ""
  /\ Len(readProjects) = 2
  /\ readProjects[1].category = "health"
  /\ readProjects[2].category = "tech"
  /\ readProjects[2].lookingForInvestment = FALSE

Pending(p) == pc[p] \notin {"idle", "done"}
Structured(r) ==
  /\ r.status \in {200, 400, 401, 403, 404, 409, 500}
  /\ r.status # 200 => r.message # ""

\* C20: every request is eventually answered, a handler that is suspended has
\* sent nothing yet, and what an answered request has sent is one success or
\* error object, also when its file write failed; this under weak fairness of
\* each suspended handler's pending step.
C20_EveryRequestAnswered ==
  \A p \in Procs :
    /\ [](Pending(p) => <>(pc[p] = "done"))
    /\ [](Pending(p) => res[p] = NoResponse)
    /\ [](pc[p] = "done" => Structured(res[p]))

\* A signup whose write failed after truncating users.json was answered 500
\* while the other process had a request suspended.
C20_Witness ==
  /\ Done(1, "signup")
  /\ res[1] = InternalError
  /\ usersFile[1] = "torn"
  /\ Pending(2)

\* C21: without mutual exclusion the last writer wins: every step that changes
\* projects.json leaves in it the in-memory array of the request that takes
\* the step, whatever was written since that request read the file.  (The
\* lost increment itself is the state C21_Witness.)
C21_LastWriterWins ==
  [][projectsFile' # projectsFile =>
       \E p \in Procs : /\ pc[p] = "writeProjects" /\ pc'[p] = "done"
                        /\ res'[p].status = 200
                        /\ projectsFile' = JSONstringify(projects[p])]_vars

\* Two likes on one project were both answered success with likes 1, and the
\* file holds likes 1 for it: both had read likes 0, one increment is lost.
C21_Witness ==
  /\ Done(1, "like") /\ Done(2, "like")
  /\ req[1].id = req[2].id
  /\ res[1].status = 200 /\ res[2].status = 200
  /\ res[1].data = 1 /\ res[2].data = 1
  /\ likesOk[req[1].id] = 2
  /\ readProjects[IndexById(readProjects, req[1].id)].likes = 1

\* the body passes the four input checks of signup
WellFormed(b) ==
  /\ b.firstname # "" /\ b.lastname # "" /\ b.username # Empty
  /\ b.email # Empty /\ b.password # "" /\ b.userType # ""
  /\ validateEmail(b.email)
  /\ Len(b.password) >= MinPasswordLength
  /\ b.userType \in {"entrepreneur", "investor"}

\* C22: an answered signup reports the first failing check in the order
\* missing field, e-mail shape, password length, userType, stored username,
\* stored e-mail; and a signup handler waits for users.json only when the input
\* passed the first four.
C22_SignupCheckOrder ==
  /\ [](\A p \in Procs :
          Done(p, "signup") =>
            LET b == req[p].body
                us == UsersBefore(p)
            IN IF \/ b.firstname = "" \/ b.lastname = "" \/ b.username = Empty
                  \/ b.email = Empty \/ b.password = "" \/ b.userType = ""
                 THEN res[p] = Reply(400, "All fields are required.", NoData)
               ELSE IF ~validateEmail(b.email)
                 THEN res[p] = Reply(400, "Please enter a valid email address.", NoData)
               ELSE IF Len(b.password) < MinPasswordLength
                 THEN res[p] = Reply(400, "Password must be at least 6 characters long.",
                                     NoData)
               ELSE IF b.userType \notin {"entrepreneur", "investor"}
                 THEN res[p] = Reply(400,
                                     "User type must be either entrepreneur or investor.",
                                     NoData)
               ELSE IF \E i \in 1..Len(us) : us[i].username = b.username
                 THEN res[p] = Reply(409, "Username already exists.", NoData)
               ELSE IF \E i \in 1..Len(us) : us[i].email = b.email
                 THEN res[p] = Reply(409, "Email already exists.", NoData)
               ELSE res[p].status \in {200, 500})
  /\ [][\A p \in Procs :
          (req'[p].op = "signup" /\ pc'[p] \notin {"idle", "done"})
            => WellFormed(req'[p].body)]_vars

\* A signup whose username and e-mail are both stored, under two different
\* users, was refused for the username.
C22_Witness ==
  /\ Done(1, "signup")
  /\ res[1] = Reply(409, "Username already exists.", NoData)
  /\ \E i, j \in 1..Len(readUsers) :
       /\ i # j
       /\ readUsers[i].username = req[1].body.username
       /\ readUsers[i].email # req[1].body.email
       /\ readUsers[j].email = req[1].body.email

\* C23: in every state of users.json no stored user's favorites list holds an
\* id twice, also when two addFavorite requests for one user and one project
\* interleave their reads and writes.
C23_NoDuplicateFavorite ==
  \A i \in 1..Len(readUsers) :
    \A k, l \in 1..Len(Favorites(readUsers[i])) :
      k # l => Favorites(readUsers[i])[k] # Favorites(readUsers[i])[l]

\* The first addFavorite was answered success and its id is stored, while the
\* second, for the same user and id, has passed its own includes check on the
\* file as it was before and is about to write.
C23_Witness ==
  /\ Done(1, "addFavorite") /\ res[1].status = 200
  /\ At(2, "addFavorite", "writeUsers")
  /\ req[1].username = req[2].username
  /\ req[1].projectId = req[2].projectId
  /\ \E i \in 1..Len(readUsers) :
       /\ readUsers[i].username = req[1].username
       /\ Len(Favorites(readUsers[i])) = 2
       /\ Includes(Favorites(readUsers[i]), req[1].projectId)

UsersWriters == {"signup", "updateProfile", "addFavorite", "removeFavorite"}
ProjectsWriters == {"create", "like", "delete"}
ReadOnly == {"login", "getUser", "listUsers", "list", "getById", "listFavorites"}

\* C24: a step that changes users.json is a step of a signup, updateProfile,
\* addFavorite or removeFavorite request, and a step that changes projects.json
\* one of a create, like or delete request; so an answered request of the
\* other kinds has left that file, and a read-only request both files, as it
\* found them.
C24_WritesOwnCollectionOnly ==
  /\ [][/\ usersFile' # usersFile =>
             (\E p \in Procs : pc'[p] # pc[p] /\ req[p].op \in UsersWriters)
        /\ projectsFile' # projectsFile =>
             (\E p \in Procs : pc'[p] # pc[p] /\ req[p].op \in ProjectsWriters)]_vars
  /\ [](\A p \in Procs :
          pc[p] = "done" =>
            /\ req[p].op \in ProjectsWriters => usersFile = before[p].users
            /\ req[p].op \in UsersWriters => projectsFile = before[p].projects
            /\ req[p].op \in ReadOnly => FilesUnchanged(p))

\* A delete by its creator removed a project while users.json held a user with
\* a favorites list, and users.json is as the request found it.
C24_Witness ==
  /\ Done(1, "delete") /\ res[1].status = 200
  /\ projectsFile # before[1].projects
  /\ usersFile = before[1].users
  /\ \E i \in 1..Len(readUsers) : Len(Favorites(readUsers[i])) = 1

\* i is the index of the first record of ps with the id
IsFirstWithId(ps, i, id) ==
  /\ i \in 1..Len(ps)
  /\ ps[i].id = id
  /\ \A j \in 1..(i - 1) : ps[j].id # id

\* C25: with one request at a time, a like answered success has added 1 to the
\* likes of the first stored record with the id and changed nothing else, and
\* a delete answered success has removed that one record, the others keeping
\* their content and order.
C25_LikeDeleteTouchOneRecord ==
  \A p \in Procs :
    LET ps == ProjectsBefore(p) IN
    /\ (Done(p, "like") /\ res[p].status = 200) =>
         \E i \in 1..Len(ps) :
           /\ IsFirstWithId(ps, i, req[p].id)
           /\ Len(readProjects) = Len(ps)
           /\ \A j \in 1..Len(ps) : j # i => readProjects[j] = ps[j]
           /\ DOMAIN readProjects[i] = DOMAIN ps[i]
           /\ \A k \in DOMAIN ps[i] \ {"likes"} : readProjects[i][k] = ps[i][k]
           /\ readProjects[i].likes = ps[i].likes + 1
    /\ (Done(p, "delete") /\ res[p].status = 200) =>
         \E i \in 1..Len(ps) :
           /\ IsFirstWithId(ps, i, req[p].id)
           /\ Len(readProjects) = Len(ps) - 1
           /\ \A j \in 1..(i - 1) : readProjects[j] = ps[j]
           /\ \A j \in i..(Len(ps) - 1) : readProjects[j] = ps[j + 1]
    /\ Done(p, "like") \/ Done(p, "delete") => usersFile = before[p].users

\* A delete removed the first of two stored records that share their id, and
\* the second, which had been liked, is still stored.
C25_Witness ==
  /\ Done(1, "delete") /\ res[1].status = 200
  /\ Len(ProjectsBefore(1)) = 2
  /\ ProjectsBefore(1)[1].id = ProjectsBefore(1)[2].id
  /\ readProjects = <<ProjectsBefore(1)[2]>>

\* us1 is us0 with projectId, which username's list did not hold, appended to it
AddedTo(us0, us1, username, projectId) ==
  /\ Len(us1) = Len(us0)
  /\ \E i \in 1..Len(us0) : us0[i].username = username
  /\ \A i \in 1..Len(us0) :
       IF us0[i].username = username
         THEN /\ ~Includes(Favorites(us0[i]), projectId)
              /\ Favorites(us1[i]) = Append(Favorites(us0[i]), projectId)
         ELSE us1[i] = us0[i]

\* C26: with one request at a time, when an addFavorite answered success is
\* the first client's last request and the second client's removeFavorite of
\* the same user and projectId, arrived on the file that add left, is answered,
\* the remove is not refused (its only other answer is the 500 of a failed
\* write, which leaves the file as the add left it), and after its success the
\* user's favorites are the ids, in the order, they were before the add (an
\* absent list counting as empty), the user's other fields and every other
\* user being what they were.
C26_AddThenRemoveRestores ==
  [][ LET us0 == UsersBefore(1)
          us1 == UsersBefore(2)
      IN
      ( /\ Done(1, "addFavorite") /\ res[1].status = 200
        /\ pc[2] \notin {"idle", "done"}
        /\ Done(2, "removeFavorite")'
        /\ req[2].username = req[1].username
        /\ req[2].projectId = req[1].projectId
        /\ AddedTo(us0, us1, req[1].username, req[1].projectId) )
      => /\ res'[2].status \in {200, 500}
         /\ res'[2].status = 500 => usersFile' = before[2].users
         /\ res'[2].status = 200 =>
              /\ Len(readUsers') = Len(us0)
              /\ \A i \in 1..Len(us0) :
                   IF us0[i].username = req[1].username
                     THEN /\ Favorites(readUsers'[i]) = Favorites(us0[i])
                          /\ \A k \in DOMAIN us0[i] \ {"favorites"} :
                               /\ k \in DOMAIN readUsers'[i]
                               /\ readUsers'[i][k] = us0[i][k]
                          /\ DOMAIN readUsers'[i] \subseteq
                               DOMAIN us0[i] \cup {"favorites"}
                     ELSE readUsers'[i] = us0[i]
    ]_vars

\* demo-1 was added to a list holding demo-2 and removed again, a second user
\* being stored: the list is [demo-2] as before.
C26_Witness ==
  /\ Done(1, "addFavorite") /\ res[1].status = 200
  /\ Done(2, "removeFavorite") /\ res[2].status = 200
  /\ req[1].username = ada /\ req[2].username = ada
  /\ req[1].projectId = "demo-1" /\ req[2].projectId = "demo-1"
  /\ AddedTo(UsersBefore(1), UsersBefore(2), ada, "demo-1")
  /\ Len(readUsers) = 2
  /\ \E i \in 1..2 :
       /\ readUsers[i].username = ada
       /\ Favorites(UsersBefore(1)[i]) = <<"demo-2">>
       /\ readUsers[i].favorites = <<"demo-2">>
====
